---- MODULE Spec2Model ----
(***************************************************************************)
(* A model of etrago/extras/utilities.py: utility functions that query or  *)
(* transform a PyPSA network (buses, lines, transformers, generators,      *)
(* loads, snapshots) and export its results.                               *)
(*                                                                         *)
(* Component ids are Python strings of decimal digits.  A string of digits *)
(* is modelled as the sequence of its digits, so that int(), str() and the *)
(* lexicographic order of strings are computed the way Python computes     *)
(* them.  Real-valued columns are modelled in exact rational arithmetic.   *)
(***************************************************************************)
EXTENDS Integers, Sequences, FiniteSets, TLC

VARIABLES
    network,   \* the pypsa.Network object the functions read and mutate
    pre,       \* the network as it was when the last call started
    op,        \* the function called last ("init" before any call)
    args,      \* the arguments of the last call
    ret,       \* what the last call computed (return value, locals, exception)
    fs         \* the file system results_to_csv writes to

vars == <<network, pre, op, args, ret, fs>>

----------------------------------------------------------------------------
(* Python builtins on strings of digits and on collections.                *)

RECURSIVE str(_)
str(n) == IF n < 10 THEN <<n>> ELSE Append(str(n \div 10), n % 10)

RECURSIVE int(_)
int(s) == IF Len(s) = 0 THEN 0
          ELSE 10 * int(SubSeq(s, 1, Len(s) - 1)) + s[Len(s)]

\* s < t in Python's comparison of strings (character by character).
RECURSIVE StrLt(_, _)
StrLt(s, t) ==
    IF Len(s) = 0 THEN Len(t) > 0
    ELSE IF Len(t) = 0 THEN FALSE
    ELSE IF s[1] # t[1] THEN s[1] < t[1]
    ELSE StrLt(Tail(s), Tail(t))

\* max() and min() of an index of strings.
StrMax(S) == CHOOSE m \in S : \A x \in S : ~StrLt(m, x)
StrMin(S) == CHOOSE m \in S : \A x \in S : ~StrLt(x, m)

\* max() and min() of numbers.
IntMax(S) == CHOOSE m \in S : \A x \in S : x <= m
IntMin(S) == CHOOSE m \in S : \A x \in S : m <= x

\* np.sum of column f over the rows S of a table.
RECURSIVE SumField(_, _)
SumField(S, f) ==
    IF S = {} THEN 0
    ELSE LET x == CHOOSE y \in S : TRUE IN x[f] + SumField(S \ {x}, f)

\* The network before any component is loaded.
EmptyNetwork ==
    [buses |-> <<>>, lines |-> {}, transformers |-> {}, generators |-> <<>>,
     carriers |-> {}, loads_p_set |-> <<>>, snapshots |-> <<>>,
     lines_t |-> <<>>, solved |-> <<>>, hasZ |-> FALSE]

NoFiles == [dirs |-> {}, files |-> <<>>]

----------------------------------------------------------------------------
(* group_parallel_lines                                                    *)

MaxLines == 3

BusIds == {str(9), str(10), str(11)}
LineIds == <<str(9), str(10), str(11), str(12), str(100)>>

\* Electrical attributes a line of the input tables may carry.
LineAttrs ==
    { [s_nom |-> 1, num_parallel |-> 1, cables |-> 3, length |-> 5, capital_cost |-> 7],
      [s_nom |-> 2, num_parallel |-> 2, cables |-> 6, length |-> 4, capital_cost |-> 9],
      [s_nom |-> 4, num_parallel |-> 1, cables |-> 3, length |-> 4, capital_cost |-> 6] }

BusPairs == {p \in BusIds \X BusIds : p[1] # p[2]}

MkLine(i, p, a) ==
    [id |-> LineIds[i], bus0 |-> p[1], bus1 |-> p[2], s_nom |-> a.s_nom,
     num_parallel |-> a.num_parallel, cables |-> a.cables,
     length |-> a.length, capital_cost |-> a.capital_cost]

\* The lines table of n lines with unique ids, line i as f[i] gives it.
LineTable(n, f) == {MkLine(i, f[i][1], f[i][2]) : i \in 1..n}

\* A faulty variant of OrderBuses: the buses are left in the order given.
OrderSkipped(l) == l

\* lines 276-280: bus0 becomes the numerically smaller bus, bus1 the larger.
OrderBuses(l) ==
    [l EXCEPT !.bus0 = str(IntMin({int(l.bus0), int(l.bus1)})),
              !.bus1 = str(IntMax({int(l.bus0), int(l.bus1)}))]

\* line 286: the groups of groupby(['bus0','bus1']), by key.
GroupKeys(old_lines) == {<<l.bus0, l.bus1>> : l \in old_lines}
Group(old_lines, k) == {l \in old_lines : <<l.bus0, l.bus1>> = k}

\* A faulty variant of Agg: the length is reduced with max.
AggLengthMax(g, k) ==
    [id |-> StrMin({l.id : l \in g}), bus0 |-> k[1], bus1 |-> k[2],
     s_nom |-> SumField(g, "s_nom"),
     num_parallel |-> SumField(g, "num_parallel"),
     cables |-> SumField(g, "cables"),
     length |-> IntMax({l.length : l \in g}),
     capital_cost |-> IntMin({l.capital_cost : l \in g})]

\* lines 289-321: one aggregated row per group, indexed by the smallest
\* old index of the group.
Agg(g, k) ==
    [id |-> StrMin({l.id : l \in g}), bus0 |-> k[1], bus1 |-> k[2],
     s_nom |-> SumField(g, "s_nom"),
     num_parallel |-> SumField(g, "num_parallel"),
     cables |-> SumField(g, "cables"),
     length |-> IntMin({l.length : l \in g}),
     capital_cost |-> IntMin({l.capital_cost : l \in g})]

new_lines(lines) ==
    LET old_lines == {OrderBuses(l) : l \in lines}
    IN  {Agg(Group(old_lines, k), k) : k \in GroupKeys(old_lines)}

group_parallel_lines ==
    /\ op = "init"
    /\ pre' = network
    /\ network' = [network EXCEPT !.lines = new_lines(network.lines)]
    /\ op' = "group_parallel_lines"
    /\ UNCHANGED <<args, ret, fs>>

InitGroup ==
    /\ \E n \in 0..MaxLines : \E f \in [1..n -> BusPairs \X LineAttrs] :
          network = [EmptyNetwork EXCEPT !.lines = LineTable(n, f)]
    /\ pre = network
    /\ op = "init"
    /\ args = <<>>
    /\ ret = <<>>
    /\ fs = NoFiles

SpecGroup == InitGroup /\ [][group_parallel_lines]_vars

\* The unordered pair of buses a line joins.
Joined(l) == {l.bus0, l.bus1}
Parallel(lines, l) == {o \in lines : Joined(o) = Joined(l)}
Grouped == op = "group_parallel_lines"

\* C1: after group_parallel_lines no two lines join the same unordered pair
\* of buses, and the unordered pairs joined by a line are those joined before.
C1_OneLinePerPair ==
    Grouped =>
        /\ \A l1, l2 \in network.lines : Joined(l1) = Joined(l2) => l1 = l2
        /\ {Joined(l) : l \in network.lines} = {Joined(l) : l \in pre.lines}

\* Two lines given in opposite directions between the same buses were merged.
C1_Witness ==
    /\ Grouped
    /\ \E l1, l2 \in pre.lines :
          l1.bus0 = l2.bus1 /\ l1.bus1 = l2.bus0 /\ StrLt(l1.bus0, l1.bus1)
          /\ int(l1.bus0) > int(l1.bus1)
    /\ Cardinality(network.lines) < Cardinality(pre.lines)

\* C2: every resulting line carries the sums of s_nom, num_parallel and
\* cables and the minima of length and capital_cost over the original lines
\* joining the same unordered pair of buses, its id is the id of one of
\* them, and the totals of s_nom, num_parallel and cables are unchanged.
C2_GroupAndReduce ==
    Grouped =>
        /\ \A l \in network.lines :
             LET g == Parallel(pre.lines, l) IN
             /\ g # {}
             /\ l.s_nom = SumField(g, "s_nom")
             /\ l.num_parallel = SumField(g, "num_parallel")
             /\ l.cables = SumField(g, "cables")
             /\ \E o \in g : l.length = o.length
             /\ \A o \in g : l.length <= o.length
             /\ \E o \in g : l.capital_cost = o.capital_cost
             /\ \A o \in g : l.capital_cost <= o.capital_cost
             /\ l.id \in {o.id : o \in g}
        /\ \A f \in {"s_nom", "num_parallel", "cables"} :
             SumField(network.lines, f) = SumField(pre.lines, f)

\* Three parallel lines with different lengths were reduced to one line.
C2_Witness ==
    /\ Grouped
    /\ Cardinality(pre.lines) = 3
    /\ Cardinality(network.lines) = 1
    /\ Cardinality({l.length : l \in pre.lines}) > 1
    /\ \E l \in pre.lines : l.bus0 # (CHOOSE n \in network.lines : TRUE).bus0

----------------------------------------------------------------------------
(* connected_grid_lines, connected_transformer                             *)

MaxBranches == 2

Range(s) == {s[i] : i \in DOMAIN s}

MkTrafo(i, p) == [id |-> LineIds[i], bus0 |-> p[1], bus1 |-> p[2], s_nom |-> 1600]

\* The transformer table of n transformers, transformer i between f[i].
TrafoTable(n, f) == {MkTrafo(i, f[i]) : i \in 1..n}

\* The lines table of n lines of equal attributes, line i between f[i].
BranchTable(n, f) ==
    {MkLine(i, f[i], CHOOSE a \in LineAttrs : a.s_nom = 1) : i \in 1..n}

\* lines 68-71: the rows with bus1 or bus0 among busids.
connected_grid_lines_result(lines, busids) ==
    {l \in lines : l.bus1 \in busids \/ l.bus0 \in busids}

\* lines 90-92: the rows with bus0 among busids.
connected_transformer_result(transformers, busids) ==
    {t \in transformers : t.bus0 \in busids}

connected_grid_lines ==
    \E busids \in SUBSET BusIds :
        /\ op = "init"
        /\ pre' = network
        /\ op' = "connected_grid_lines"
        /\ args' = busids
        /\ ret' = connected_grid_lines_result(network.lines, busids)
        /\ UNCHANGED <<network, fs>>

connected_transformer ==
    \E busids \in SUBSET BusIds :
        /\ op = "init"
        /\ pre' = network
        /\ op' = "connected_transformer"
        /\ args' = busids
        /\ ret' = connected_transformer_result(network.transformers, busids)
        /\ UNCHANGED <<network, fs>>

InitQuery ==
    /\ \E n \in 0..MaxBranches, m \in 0..MaxBranches :
          \E f \in [1..n -> BusPairs], g \in [1..m -> BusPairs] :
             network = [EmptyNetwork EXCEPT !.lines = BranchTable(n, f),
                                            !.transformers = TrafoTable(m, g)]
    /\ pre = network
    /\ op = "init"
    /\ args = {}
    /\ ret = {}
    /\ fs = NoFiles

SpecQuery == InitQuery /\ [][connected_grid_lines \/ connected_transformer]_vars

\* C4: connected_transformer returns the transformers with bus0 or bus1
\* among busids, as connected_grid_lines does for lines.
C4_EitherEnd ==
    op = "connected_transformer" =>
        ret = {t \in network.transformers : t.bus0 \in args \/ t.bus1 \in args}

\* The lines query does select by either end.
C4_LinesEitherEnd ==
    op = "connected_grid_lines" =>
        ret = {l \in network.lines : Joined(l) \cap args # {}}

----------------------------------------------------------------------------
(* data_manipulation_sh                                                    *)

\* The index sets a table of the network may have.
IdSets == (SUBSET {str(9), str(10), str(11)}) \ {{}}

\* network.add (PyPSA) asserts that the name is not yet in the table.
\* lines 139-145: the three new ids, then the three network.add calls; the
\* first add of a name that exists raises and ends the call.
data_manipulation_sh ==
    LET bus_ids == Range(network.buses)
        trafo_ids == {t.id : t \in network.transformers}
        line_ids == {l.id : l \in network.lines}
        new_bus == str(int(StrMax(bus_ids)) + 1)
        new_trafo == str(int(StrMax(trafo_ids)) + 1)
        new_line == str(int(StrMax(line_ids)) + 1)
        trafo == [id |-> new_trafo, bus0 |-> str(25536), bus1 |-> new_bus,
                  s_nom |-> 1600]
        line == [id |-> new_line, bus0 |-> str(26387), bus1 |-> new_bus,
                 s_nom |-> 1600, num_parallel |-> 1, cables |-> 3,
                 length |-> 0, capital_cost |-> 0]
        added == IF new_bus \in bus_ids THEN 0
                 ELSE IF new_trafo \in trafo_ids THEN 1
                 ELSE IF new_line \in line_ids THEN 2
                 ELSE 3
    IN  /\ op = "init"
        /\ pre' = network
        /\ op' = "data_manipulation_sh"
        /\ ret' = [new_bus |-> new_bus, new_trafo |-> new_trafo,
                   new_line |-> new_line,
                   exception |-> IF added = 3 THEN "none" ELSE "AssertionError"]
        /\ network' =
             [network EXCEPT
                !.buses = IF added >= 1 THEN Append(@, new_bus) ELSE @,
                !.transformers = IF added >= 2 THEN @ \cup {trafo} ELSE @,
                !.lines = IF added >= 3 THEN @ \cup {line} ELSE @]
        /\ UNCHANGED <<args, fs>>

\* A bus index holding the ids S, in increasing numeric order.
RECURSIVE IndexOf(_)
IndexOf(S) ==
    IF S = {} THEN <<>>
    ELSE LET m == CHOOSE x \in S : \A y \in S : int(y) <= int(x)
         IN  Append(IndexOf(S \ {m}), m)

InitManip ==
    /\ network \in
         {[EmptyNetwork EXCEPT
             !.buses = IndexOf(b \cup {str(25536), str(26387)}),
             !.transformers = {[id |-> i, bus0 |-> str(25536),
                                bus1 |-> str(26387), s_nom |-> 1600] : i \in t},
             !.lines = {[id |-> i, bus0 |-> str(25536), bus1 |-> str(26387),
                         s_nom |-> 1, num_parallel |-> 1, cables |-> 3,
                         length |-> 5, capital_cost |-> 7] : i \in l}] :
          b \in SUBSET {str(9), str(10), str(11)}, t \in IdSets, l \in IdSets}
    /\ pre = network
    /\ op = "init"
    /\ args = <<>>
    /\ ret = <<>>
    /\ fs = NoFiles

SpecManip == InitManip /\ [][data_manipulation_sh]_vars

\* C9: the ids data_manipulation_sh computes for the new bus, transformer
\* and line are not ids of an existing bus, transformer or line.
C9_FreshIds ==
    op = "data_manipulation_sh" =>
        /\ ret.new_bus \notin Range(pre.buses)
        /\ ret.new_trafo \notin {t.id : t \in pre.transformers}
        /\ ret.new_line \notin {l.id : l \in pre.lines}

\* With bus ids of one length the computed bus id is fresh.
C9_SameLengthFresh ==
    (op = "data_manipulation_sh"
       /\ \A x, y \in Range(pre.buses) : Len(x) = Len(y)) =>
        ret.new_bus \notin Range(pre.buses)

----------------------------------------------------------------------------
(* load_shedding                                                           *)

MaxBuses == 2
MaxCalls == 2
Snapshots2 == 1..2
Loads2 == 1..2

\* The bus indexes of at most MaxBuses buses, in any order.
BusIndexes ==
    UNION { {f \in [1..n -> BusIds] : \A i, j \in 1..n : f[i] = f[j] => i = j} :
            n \in 0..MaxBuses }

\* The keyword arguments a caller may pass.
Kwargs ==
    { <<>>, [marginal_cost |-> 500], [p_nom |-> 5],
      [marginal_cost |-> 500, p_nom |-> 5] }

\* dict.get(key, default)
get(d, key, default) == IF key \in DOMAIN d THEN d[key] ELSE default

marginal_cost_def == 10000

\* line 110: loads_t.p_set.max().max(), the maximum over the loads of the
\* maximum over the snapshots.
p_nom_def(nw) ==
    IntMax({ IntMax({nw.loads_p_set[t][l] : t \in DOMAIN nw.loads_p_set}) :
             l \in Loads2 })

\* lines 116-120: the ids of the new generators.
shed_index(nw) ==
    LET start == IntMax({int(g.id) : g \in Range(nw.generators)})
        nums == Len(nw.buses)
        end == start + nums
    IN  [i \in 1..(end - start) |-> str(start + i - 1)]

\* lines 122-127: the rows of the new generators, one per bus in index order.
shed_rows(nw, kwargs) ==
    LET index == shed_index(nw)
    IN  [i \in 1..Len(index) |->
           [id |-> index[i], bus |-> nw.buses[i], carrier |-> "load shedding",
            marginal_cost |-> get(kwargs, "marginal_cost", marginal_cost_def),
            p_nom |-> get(kwargs, "p_nom", p_nom_def(nw))]]

\* PyPSA's import_components_from_dataframe: the rows are concatenated to
\* the table; when that leaves the index not unique, the releases that check
\* it log an error and leave the table as it was (import_rejects), the
\* others keep the concatenation.
import_components(generators, rows, import_rejects) ==
    LET cat == generators \o rows
        unique == \A i, j \in DOMAIN cat : cat[i].id = cat[j].id => i = j
    IN  IF ~unique /\ import_rejects THEN generators ELSE cat

\* network.add("Carrier", "load") of line 115 raises in the PyPSA releases
\* that assert the name to be new (add_raises) when the carrier exists; an
\* empty generator index has no integer maximum and line 116-119 raises.
load_shedding ==
    \E kwargs \in Kwargs, add_raises \in BOOLEAN, import_rejects \in BOOLEAN :
        /\ op \in {"init", "load_shedding"}
        /\ get(ret, "calls", 0) < MaxCalls
        /\ pre' = network
        /\ op' = "load_shedding"
        /\ args' = kwargs
        /\ UNCHANGED fs
        /\ IF "load" \in network.carriers /\ add_raises
           THEN /\ network' = network
                /\ ret' = [calls |-> get(ret, "calls", 0) + 1, index |-> <<>>,
                           exception |-> "AssertionError"]
           ELSE IF network.generators = <<>>
           THEN /\ network' = [network EXCEPT !.carriers = @ \cup {"load"}]
                /\ ret' = [calls |-> get(ret, "calls", 0) + 1, index |-> <<>>,
                           exception |-> "ValueError"]
           ELSE /\ network' =
                     [network EXCEPT
                        !.carriers = @ \cup {"load"},
                        !.generators =
                           import_components(@, shed_rows(network, kwargs),
                                             import_rejects)]
                /\ ret' = [calls |-> get(ret, "calls", 0) + 1,
                           index |-> shed_index(network),
                           exception |-> "none"]

InitShed ==
    /\ network \in
         {[EmptyNetwork EXCEPT
             !.buses = b,
             !.generators =
                 [i \in 1..Len(IndexOf(g)) |->
                    [id |-> IndexOf(g)[i], bus |-> str(9), carrier |-> "gas",
                     marginal_cost |-> 30, p_nom |-> 100]],
             !.loads_p_set = p] :
          b \in BusIndexes, g \in SUBSET {str(9), str(10), str(11)},
          p \in [Snapshots2 -> [Loads2 -> {3, 8}]]}
    /\ pre = network
    /\ op = "init"
    /\ args = <<>>
    /\ ret = <<>>
    /\ fs = NoFiles

SpecShed == InitShed /\ [][load_shedding]_vars

Shed == op = "load_shedding" /\ ret.exception = "none"

\* The generators the claim expects load_shedding to add: one per bus.
ExpectedShedRow(g, bus) ==
    /\ g.bus = bus
    /\ g.carrier = "load shedding"
    /\ g.marginal_cost = get(args, "marginal_cost", 10000)
    /\ g.p_nom = get(args, "p_nom",
                     IntMax({pre.loads_p_set[t][l] : t \in Snapshots2, l \in Loads2}))

\* C5: load_shedding adds exactly one generator per bus, attached to that
\* bus, with carrier 'load shedding', the given or default marginal_cost and
\* p_nom, and leaves the generators that existed before unchanged.
C5_OneGeneratorPerBus ==
    Shed =>
        LET old == Len(pre.generators) IN
        /\ Len(network.generators) = old + Len(pre.buses)
        /\ SubSeq(network.generators, 1, old) = pre.generators
        /\ \A i \in 1..Len(pre.buses) :
             ExpectedShedRow(network.generators[old + i], pre.buses[i])

\* C8: the ids load_shedding assigns are pairwise distinct and none of them
\* is the id of a generator that existed before the call.
C8_UniqueIds ==
    Shed =>
        /\ \A i, j \in DOMAIN ret.index : ret.index[i] = ret.index[j] => i = j
        /\ Range(ret.index) \cap {g.id : g \in Range(pre.generators)} = {}

----------------------------------------------------------------------------
(* parallelisation                                                         *)

MaxSnapshots == 4
MaxGroupSize == 3

\* Python's slice seq[a:b] for 0 <= a <= b: positions a .. b-1, clipped.
Slice(seq, a, b) == SubSeq(seq, a + 1, IntMin({b, Len(seq)}))

\* line 188: range(int((end_h-start_h+1)/group_size))
n_groups(start_h, end_h, group_size) == (end_h - start_h + 1) \div group_size

\* lines 188-189: the snapshots handed to network.lopf, call by call.
lopf_calls(snapshots, start_h, end_h, group_size) ==
    [k \in 1..n_groups(start_h, end_h, group_size) |->
       Slice(snapshots, group_size * (k - 1), group_size * (k - 1) + group_size)]

parallelisation ==
    \E start_h \in Range(network.snapshots), end_h \in Range(network.snapshots),
       group_size \in 1..MaxGroupSize :
        /\ op = "init"
        /\ start_h <= end_h
        /\ pre' = network
        /\ op' = "parallelisation"
        /\ args' = [start_h |-> start_h, end_h |-> end_h, group_size |-> group_size]
        /\ network' = [network EXCEPT !.solved =
                         lopf_calls(network.snapshots, start_h, end_h, group_size)]
        /\ ret' = <<>>
        /\ UNCHANGED fs

\* The network holds the hours first .. first+n-1 as its snapshots.
InitOpf ==
    /\ network \in
         {[EmptyNetwork EXCEPT !.snapshots = [i \in 1..n |-> first + i - 1]] :
          first \in 1..3, n \in 1..MaxSnapshots}
    /\ pre = network
    /\ op = "init"
    /\ args = <<>>
    /\ ret = <<>>
    /\ fs = NoFiles

SpecOpf == InitOpf /\ [][parallelisation]_vars

\* The number of lopf calls that solved snapshot h.
TimesSolved(h) ==
    Cardinality({<<k, i>> \in (DOMAIN network.solved) \X (DOMAIN network.snapshots) :
                   i \in DOMAIN network.solved[k] /\ network.solved[k][i] = h})

\* C3: every snapshot of start_h..end_h is passed to network.lopf in exactly
\* one call and no other snapshot is passed to it.  Stated here for a
\* network whose snapshots are exactly the requested range.
C3_EverySnapshotOnce ==
    (op = "parallelisation"
       /\ network.snapshots[1] = args.start_h
       /\ network.snapshots[Len(network.snapshots)] = args.end_h) =>
        \A h \in Range(network.snapshots) :
            TimesSolved(h) = IF args.start_h <= h /\ h <= args.end_h THEN 1 ELSE 0

\* What the loop does solve: the first group_size * n_groups snapshots of
\* the network, each once.
C3_WholeGroupsOnce ==
    op = "parallelisation" =>
        LET m == args.group_size * ((args.end_h - args.start_h + 1) \div args.group_size)
        IN  \A i \in DOMAIN network.snapshots :
              TimesSolved(network.snapshots[i]) = IF i <= m THEN 1 ELSE 0

----------------------------------------------------------------------------
(* calc_line_losses                                                        *)

MaxLossLines == 2
LossSnapshots == 1..2

\* Real numbers are exact fractions <<numerator, denominator>> in lowest
\* terms with a positive denominator.
RECURSIVE Gcd(_, _)
Gcd(a, b) == IF b = 0 THEN a ELSE Gcd(b, a % b)
Abs(a) == IF a < 0 THEN -a ELSE a
Frac(n, d) ==
    LET g == Gcd(Abs(n), Abs(d))
        sgn == IF d < 0 THEN -1 ELSE 1
    IN  <<sgn * (n \div g), sgn * (d \div g)>>
RMul(x, y) == Frac(x[1] * y[1], x[2] * y[2])
RDiv(x, y) == Frac(x[1] * y[2], x[2] * y[1])
RAdd(x, y) == Frac(x[1] * y[2] + y[1] * x[2], x[2] * y[2])
RSub(x, y) == Frac(x[1] * y[2] - y[1] * x[2], x[2] * y[2])
RInt(n) == <<n, 1>>

\* np.sqrt on the squares of integers (the flows of the input tables are
\* chosen so that p0^2 + q0^2 is one).
sqrt(n) == CHOOSE s \in 0..n : s * s = n

\* (p0, q0) of a line in a snapshot, in MW and MVar.
Flows == {<<0, 0>>, <<3, 4>>, <<-6, 8>>}

\* line 236: s0_lines
s0_lines(p0, q0) == RInt(sqrt(p0 * p0 + q0 * q0))

\* line 239: i0_lines
i0_lines(s0, v_nom) == RDiv(RMul(s0, RInt(1000000)), RMul(RInt(v_nom), RInt(1000)))

\* A faulty variant of line_loss: the current is not squared.
line_loss_linear(i0, r) == RDiv(RMul(i0, RInt(r)), RInt(1000000))

\* line 241: network.lines_t.losses
line_loss(i0, r) == RDiv(RMul(RMul(i0, i0), RInt(r)), RInt(1000000))

\* np.sum / sum of a row of reals
RECURSIVE RSum(_)
RSum(seq) == IF Len(seq) = 0 THEN RInt(0) ELSE RAdd(seq[1], RSum(Tail(seq)))

\* line 249: s_nom * (1 - 0.998)
trafo_loss(s_nom) == RMul(RInt(s_nom), RSub(RInt(1), Frac(998, 1000)))

calc_line_losses ==
    LET losses_t ==
          [t \in LossSnapshots |->
             [id \in {l.id : l \in network.lines} |->
                LET l == CHOOSE x \in network.lines : x.id = id
                    f == network.lines_t[t][id]
                IN  line_loss(i0_lines(s0_lines(f[1], f[2]), l.v_nom), l.r)]]
    IN  /\ op = "init"
        /\ pre' = network
        /\ op' = "calc_line_losses"
        /\ network' =
             [network EXCEPT
                !.lines_t = [t \in LossSnapshots |->
                               [id \in DOMAIN @[t] |->
                                  [p0 |-> @[t][id][1], q0 |-> @[t][id][2],
                                   losses |-> losses_t[t][id]]]],
                !.lines = {[id |-> l.id, r |-> l.r, v_nom |-> l.v_nom,
                            losses |-> RSum([t \in LossSnapshots |-> losses_t[t][l.id]])] :
                           l \in @},
                !.transformers = {[id |-> x.id, s_nom |-> x.s_nom,
                                   losses |-> trafo_loss(x.s_nom)] : x \in @}]
        /\ ret' = <<>>
        /\ UNCHANGED <<args, fs>>

InitLoss ==
    /\ network \in
         {[EmptyNetwork EXCEPT
             !.lines = {[id |-> LineIds[i], r |-> a[i][1], v_nom |-> a[i][2]] :
                        i \in 1..n},
             !.lines_t = [t \in LossSnapshots |->
                            [id \in {LineIds[i] : i \in 1..n} |->
                               f[t][CHOOSE i \in 1..n : LineIds[i] = id]]],
             !.transformers = {[id |-> str(7), s_nom |-> s]}] :
          n \in 1..MaxLossLines,
          a \in [1..MaxLossLines -> {0, 2} \X {110, 220}],
          f \in [LossSnapshots -> [1..MaxLossLines -> Flows]],
          s \in {400, 1600}}
    /\ pre = network
    /\ op = "init"
    /\ args = <<>>
    /\ ret = <<>>
    /\ fs = NoFiles

SpecLoss == InitLoss /\ [][calc_line_losses]_vars

\* (p0^2 + q0^2) * r / v_nom^2 of line l of the input in snapshot t.
OhmicLoss(l, t) ==
    LET f == pre.lines_t[t][l.id]
    IN  Frac((f[1] * f[1] + f[2] * f[2]) * l.r, l.v_nom * l.v_nom)

\* C6: calc_line_losses stores (p0^2 + q0^2) * r / v_nom^2 per line and
\* snapshot, the sum of it over the snapshots per line, and 0.2 % of s_nom
\* per transformer; no stored loss is negative and a line without flow has
\* loss 0.
C6_OhmicLosses ==
    op = "calc_line_losses" =>
        /\ \A l \in pre.lines : \A t \in LossSnapshots :
             /\ network.lines_t[t][l.id].losses = OhmicLoss(l, t)
             /\ network.lines_t[t][l.id].losses[1] >= 0
        /\ \A l \in pre.lines : \E n \in network.lines :
             /\ n.id = l.id
             /\ n.losses = RAdd(OhmicLoss(l, 1), OhmicLoss(l, 2))
             /\ n.losses[1] >= 0
             /\ (\A t \in LossSnapshots : pre.lines_t[t][l.id] = <<0, 0>>)
                   => n.losses = <<0, 1>>
        /\ Cardinality(network.lines) = Cardinality(pre.lines)
        /\ \A x \in pre.transformers : \E n \in network.transformers :
             n.id = x.id /\ n.losses = Frac(2 * x.s_nom, 1000)
        /\ Cardinality(network.transformers) = Cardinality(pre.transformers)

\* A line with flow in both snapshots and resistance has a positive loss
\* beside a line whose only loss comes from one snapshot.
C6_Witness ==
    /\ op = "calc_line_losses"
    /\ \E l \in network.lines :
          /\ l.r = 2 /\ l.v_nom = 220
          /\ network.lines_t[1][l.id].p0 = 3
          /\ network.lines_t[2][l.id].p0 = -6
          /\ l.losses[1] > 0
    /\ \E l \in network.lines : l.losses = <<0, 1>>

----------------------------------------------------------------------------
(* results_to_csv                                                          *)

MaxCsvCalls == 3

\* A path is the sequence of its characters.
Digits == {"0", "1", "2", "3", "4", "5", "6", "7", "8", "9"}

\* The value False passed as path.
False == <<"False">>

\* The paths a caller may pass: r/1, r/2, r1, r, 1.
Paths ==
    { <<"r", "/", "1">>, <<"r", "/", "2">>, <<"r", "1">>, <<"r">>, <<"1">> }

\* str.strip(chars): the characters of chars removed from both ends.
RECURSIVE lstrip(_, _)
lstrip(s, chars) ==
    IF Len(s) > 0 /\ s[1] \in chars THEN lstrip(Tail(s), chars) ELSE s
RECURSIVE rstrip(_, _)
rstrip(s, chars) ==
    IF Len(s) > 0 /\ s[Len(s)] \in chars
    THEN rstrip(SubSeq(s, 1, Len(s) - 1), chars) ELSE s
strip(s, chars) == rstrip(lstrip(s, chars), chars)

\* The directory a relative path names to the operating system: trailing
\* and repeated separators do not count.
RECURSIVE normpath(_)
normpath(p) ==
    IF Len(p) = 0 THEN p
    ELSE IF p[Len(p)] = "/" THEN normpath(SubSeq(p, 1, Len(p) - 1))
    ELSE IF Len(p) > 1 /\ p[1] = "/" /\ p[2] = "/" THEN normpath(Tail(p))
    ELSE <<p[1]>> \o normpath(Tail(p))

\* os.makedirs(path, exist_ok=True): the directory and its ancestors.
makedirs(dirs, path) ==
    dirs \cup {normpath(path)}
         \cup {normpath(SubSeq(path, 1, i - 1)) : i \in {j \in 2..Len(path) : path[j] = "/"}}

\* os.path.exists(path) of a directory; the empty path names nothing.
exists(dirs, path) == Len(path) > 0 /\ normpath(path) \in dirs

\* A file of directory dir, written with content c.
written(files, dir, name, c) ==
    [k \in DOMAIN files \cup {<<normpath(dir), name>>} |->
        IF k = <<normpath(dir), name>> THEN c ELSE files[k]]

\* A faulty variant of z_listed: Z.csv is never seen.
z_never_found(files, dir) == FALSE

\* line 176: whether os.listdir(dir) holds Z.csv
z_listed(files, dir) == <<normpath(dir), "Z.csv">> \in DOMAIN files

\* lines 161-182.  Every call exports the network as it is at that call:
\* the content written is the number of the call.
results_to_csv ==
    \E path \in Paths \cup {False}, hasZ \in BOOLEAN :
        LET n == get(ret, "calls", 0) + 1
            dirs1 == IF exists(fs.dirs, path) THEN fs.dirs ELSE makedirs(fs.dirs, path)
            files1 == written(fs.files, path, "network.csv", n)
            zdir == strip(path, Digits)
        IN  /\ get(ret, "calls", 0) < MaxCsvCalls
            /\ pre' = network
            /\ network' = [network EXCEPT !.hasZ = hasZ]
            /\ op' = "results_to_csv"
            /\ args' = path
            /\ IF path = False
               THEN /\ fs' = fs
                    /\ ret' = [calls |-> n, exception |-> "none", z |-> "skipped"]
               ELSE IF ~hasZ
               THEN /\ fs' = [dirs |-> dirs1, files |-> files1]
                    /\ ret' = [calls |-> n, exception |-> "none", z |-> "skipped"]
               ELSE IF ~exists(dirs1, zdir)
               THEN /\ fs' = [dirs |-> dirs1, files |-> files1]
                    /\ ret' = [calls |-> n, exception |-> "FileNotFoundError",
                               z |-> "skipped"]
               ELSE IF z_listed(files1, zdir)
               THEN /\ fs' = [dirs |-> dirs1, files |-> files1]
                    /\ ret' = [calls |-> n, exception |-> "none",
                               z |-> "already calculated"]
               ELSE /\ fs' = [dirs |-> dirs1,
                              files |-> written(files1, zdir, "Z.csv", n)]
                    /\ ret' = [calls |-> n, exception |-> "none", z |-> "written"]

\* The file system is empty, or holds directory r with the Z.csv of an
\* earlier run (content 0).
InitCsv ==
    /\ network = EmptyNetwork
    /\ pre = network
    /\ op = "init"
    /\ args = <<>>
    /\ ret = <<>>
    /\ fs \in { NoFiles,
                [dirs |-> {<<"r">>}, files |-> (<< <<"r">>, "Z.csv" >> :> 0)] }

SpecCsv == InitCsv /\ [][results_to_csv]_vars

ZFiles(files) == {k \in DOMAIN files : k[2] = "Z.csv"}

\* The directory each path of Paths names once its digits are stripped
\* (none for the path 1).
ZDirOf(path) ==
    IF path \in {<<"r", "/", "1">>, <<"r", "/", "2">>, <<"r", "1">>, <<"r">>}
    THEN <<"r">> ELSE <<>>

\* One call of results_to_csv, from the file system before it to the one
\* after it.
C7_Step ==
    /\ \A k \in ZFiles(fs.files) :
          k \in DOMAIN fs'.files /\ fs'.files[k] = fs.files[k]
    /\ \A k \in ZFiles(fs'.files) \ ZFiles(fs.files) :
          /\ network'.hasZ
          /\ fs'.files[k] = ret'.calls
          /\ k[1] = ZDirOf(args')
    /\ (network'.hasZ /\ args' # False /\ ret'.exception = "none") =>
          << ZDirOf(args'), "Z.csv" >> \in DOMAIN fs'.files
    /\ args' # False =>
          /\ << args', "network.csv" >> \in DOMAIN fs'.files
          /\ fs'.files[<< args', "network.csv" >>] = ret'.calls
    /\ args' = False => fs' = fs

====
